---- MODULE Spec2Model ----
(***************************************************************************)
(* Model of the round-based orchestration engine of orchestrator.py:       *)
(* Orchestrator.deduplicate (pure function), Orchestrator._run_web_searches*)
(* (the TaskExecutor batch) and Orchestrator.run (the round loop).         *)
(*                                                                         *)
(* Strings that the code normalises (title, url) and measures (summary)    *)
(* are sequences of one-character strings; the other strings are opaque.   *)
(* Time is in whole seconds.                                               *)
(***************************************************************************)
EXTENDS Integers, Sequences, FiniteSets, TLC

VARIABLES
    \* ---- deduplicate as a pure function (SpecDedup) ----
    X,              \* input list of PolicyItem
    out,            \* deduplicate(X)
    out2,           \* deduplicate(deduplicate(X))
    dpc,            \* "in" | "once" | "twice" | "rank" | "ranked" | "off"
    scored_policies, \* result["scored_policies"] handed to the write-back
    \* ---- Orchestrator fields ----
    time_budget,    \* self.time_budget
    max_rounds,     \* self.max_rounds
    request_delay,  \* self.request_delay
    start_time,     \* self._start_time
    now,            \* time.time()
    \* ---- locals of run / _run_web_searches ----
    pc,             \* position in run / _run_web_searches
    skip_browse_use,
    veto,           \* plan["compliance_veto"] as seen by run
    current_tasks,  \* batch handed to _run_web_searches
    i,              \* 1-based loop index of _run_web_searches
    web_results,    \* results list of _run_web_searches
    round_num,
    all_policies,
    all_sources,
    search_history,
    retry_src,      \* review["retry_tasks"] that current_tasks came from
    targets,        \* browse_targets of the escalation judge
    bi,             \* 1-based loop index of _run_browse_use
    browse_policies,
    final,          \* deduplicated (then scored) list
    result,         \* the returned WorkerResult
    \* ---- observation (history) variables ----
    dispatch_log,   \* every SearchExecutor call: term, time, outcome, records
    skipped,        \* number of tasks reported skipped by the last batch
    batch_t0,       \* time at which the current batch began
    batches,        \* number of times the TaskExecutor was run
    stop_seen,      \* value of batches when a stop condition held, else -1
    raised_by,      \* collaborator whose failure escaped run, else "none"
    plan_tasks,     \* plan["tasks"] as the Planner returned it
    calls,          \* number of _ai_call calls started, per oracle
    score_failed,   \* the Ranker call raised inside _score_policies
    verdict,        \* review as _review_round returned it last (the
                    \* "records" profile does not observe it)
    own_start       \* time.time() when this run executed line 1084

vars == << X, out, out2, dpc, time_budget, max_rounds, request_delay,
           start_time, now, pc, skip_browse_use, veto, current_tasks, i,
           web_results, round_num, all_policies, all_sources, search_history,
           retry_src, targets, bi, browse_policies, final, result,
           dispatch_log, skipped, batch_t0, batches, stop_seen, raised_by,
           scored_policies, plan_tasks, calls, score_failed, verdict,
           own_start >>

dedupVars == << X, out, out2, dpc, scored_policies >>

callVars == << plan_tasks, calls, score_failed >>

obsVars == << verdict, own_start >>

runVars == << time_budget, max_rounds, request_delay, start_time, now, pc,
              skip_browse_use, veto, current_tasks, i, web_results,
              round_num, all_policies, all_sources, search_history, retry_src,
              targets, bi, browse_policies, final, result, dispatch_log,
              skipped, batch_t0, batches, stop_seen, raised_by, plan_tasks,
              calls, score_failed, verdict, own_start >>

-----------------------------------------------------------------------------
(* Bounds *)

MaxLen == 3         \* longest input list given to deduplicate
MaxTasks == 5       \* longest batch given to _run_web_searches on its own
MaxRounds == 2      \* largest max_rounds a run is configured with
MaxScored == 2      \* longest list of scored entries the Ranker returns

-----------------------------------------------------------------------------
(* Strings as character sequences *)

Range(s) == { s[k] : k \in 1..Len(s) }

IsSpace(c) == c = " "

\* str.strip(): drop leading and trailing whitespace
RECURSIVE LStrip(_)
LStrip(s) == IF s # <<>> /\ IsSpace(Head(s)) THEN LStrip(Tail(s)) ELSE s

RECURSIVE RStrip(_)
RStrip(s) ==
    IF s # <<>> /\ IsSpace(s[Len(s)]) THEN RStrip(SubSeq(s, 1, Len(s) - 1))
    ELSE s

Strip(s) == RStrip(LStrip(s))

\* str.rstrip("/"): drop every trailing slash
RECURSIVE RStripSlash(_)
RStripSlash(s) ==
    IF s # <<>> /\ s[Len(s)] = "/" THEN RStripSlash(SubSeq(s, 1, Len(s) - 1))
    ELSE s

-----------------------------------------------------------------------------
(* PolicyItem and deduplicate *)

PolicyItem(t, u, s, sup, pdf, ft, lay, rel) ==
    [ title |-> t, url |-> u, summary |-> s, support |-> sup,
      pdf_url |-> pdf, full_text |-> ft, layer |-> lay, relevance |-> rel ]

\* key = f"{title}||{url}" with title stripped, url stripped then
\* right-stripped of "/"
KeyNoSlashStrip(p) == Strip(p.title) \o << "|", "|" >> \o Strip(p.url)

PolicyKey(p) ==
    Strip(p.title) \o << "|", "|" >> \o RStripSlash(Strip(p.url))

MergeGreaterOrEqual(existing, p) ==
    LET kept == IF Len(p.summary) >= Len(existing.summary) THEN p
                ELSE existing
        f1 == IF p.pdf_url # "" /\ existing.pdf_url = ""
              THEN [kept EXCEPT !.pdf_url = p.pdf_url] ELSE kept
        f2 == IF p.support # "" /\ existing.support = ""
              THEN [f1 EXCEPT !.support = p.support] ELSE f1
        f3 == IF p.full_text # "" /\ existing.full_text = ""
              THEN [f2 EXCEPT !.full_text = p.full_text] ELSE f2
    IN  f3

\* body of the "if key in seen" branch: returns the value of seen[key]
\* after the branch. `existing` is the object bound before the replacement,
\* the field tests read it, the assignments go to seen[key].
MergeInto(existing, p) ==
    LET kept == IF Len(p.summary) > Len(existing.summary) THEN p
                ELSE existing
        f1 == IF p.pdf_url # "" /\ existing.pdf_url = ""
              THEN [kept EXCEPT !.pdf_url = p.pdf_url] ELSE kept
        f2 == IF p.support # "" /\ existing.support = ""
              THEN [f1 EXCEPT !.support = p.support] ELSE f1
        f3 == IF p.full_text # "" /\ existing.full_text = ""
              THEN [f2 EXCEPT !.full_text = p.full_text] ELSE f2
    IN  f3

\* position of key k in the insertion-ordered dict `seen`, 0 if absent
SeenIndex(seen, k) ==
    IF \E n \in 1..Len(seen) : seen[n].key = k
    THEN CHOOSE n \in 1..Len(seen) : seen[n].key = k
    ELSE 0

DedupStepReinsertOnReplace(seen, p) ==
    LET k == PolicyKey(p)
        n == SeenIndex(seen, k)
        rest == SubSeq(seen, 1, n - 1) \o SubSeq(seen, n + 1, Len(seen))
    IN  IF n > 0
        THEN IF Len(p.summary) > Len(seen[n].item.summary)
             THEN Append(rest, [key |-> k,
                                item |-> MergeInto(seen[n].item, p)])
             ELSE [seen EXCEPT ![n].item = MergeInto(seen[n].item, p)]
        ELSE Append(seen, [key |-> k, item |-> p])

DedupStepStoreNormalized(seen, p) ==
    LET k == PolicyKey(p)
        n == SeenIndex(seen, k)
        q == [p EXCEPT !.title = Strip(p.title),
                       !.url = RStripSlash(Strip(p.url))]
    IN  IF n > 0
        THEN [seen EXCEPT ![n].item = MergeInto(seen[n].item, q)]
        ELSE Append(seen, [key |-> k, item |-> q])

\* one iteration of "for p in policies"
DedupStep(seen, p) ==
    LET k == PolicyKey(p)
        n == SeenIndex(seen, k)
    IN  IF n > 0
        THEN [seen EXCEPT ![n].item = MergeInto(seen[n].item, p)]
        ELSE Append(seen, [key |-> k, item |-> p])

RECURSIVE DedupFold(_, _)
DedupFold(seen, policies) ==
    IF policies = <<>> THEN seen
    ELSE DedupFold(DedupStep(seen, Head(policies)), Tail(policies))

\* list(seen.values())
deduplicate(policies) ==
    LET seen == DedupFold(<<>>, policies)
    IN  [ n \in 1..Len(seen) |-> seen[n].item ]

-----------------------------------------------------------------------------
(* Inputs of deduplicate *)

\* key variants: K1 and K2 normalise to the same key; K3 keeps a trailing
\* blank after the slash is removed; K4 has another title
K1 == [title |-> << "a" >>, url |-> << "u" >>]
K2 == [title |-> << " ", "a" >>, url |-> << "u", "/" >>]
K3 == [title |-> << "a" >>, url |-> << "u", " ", "/" >>]
K4 == [title |-> << "b" >>, url |-> << "u" >>]

\* optional fields: at most one populated per record
FieldCombos ==
    { [support |-> "", pdf_url |-> "", full_text |-> ""],
      [support |-> "", pdf_url |-> "p", full_text |-> ""],
      [support |-> "", pdf_url |-> "q", full_text |-> ""],
      [support |-> "s", pdf_url |-> "", full_text |-> ""],
      [support |-> "", pdf_url |-> "", full_text |-> "f"] }

MkItem(k, s, f) ==
    PolicyItem(k.title, k.url, s, f.support, f.pdf_url, f.full_text, "", 0)

\* K1 carries every optional field on an empty and a one-character summary;
\* a second summary of the same length and the other spellings of the key
\* come with a pdf or bare
BareOrPdf ==
    { g \in FieldCombos : g.support = "" /\ g.full_text = ""
                            /\ g.pdf_url # "q" }

RecPool ==
    { MkItem(K1, s, f) : s \in { <<>>, << "x" >> }, f \in FieldCombos }
    \cup { MkItem(K1, << "y" >>, f) : f \in BareOrPdf }
    \cup { MkItem(k, << "x" >>, f) : k \in {K2, K4}, f \in BareOrPdf }
    \cup { MkItem(K3, << "x" >>, f) : f \in { g \in BareOrPdf : g.pdf_url = "" } }

ListsUpTo(S, n) == UNION { [1..m -> S] : m \in 0..n }

-----------------------------------------------------------------------------
(* The run is idle while deduplicate is examined on its own *)

NoCalls == [planner |-> 0, reviewer |-> 0, judge |-> 0, ranker |-> 0]

\* what "review" holds before _review_round has returned in this run
NoVerdict == [need_more_search |-> FALSE, retry_tasks |-> <<>>]

NoResult == [policies |-> <<>>, sources |-> <<>>, error |-> "", worker |-> ""]

RunIdle ==
    /\ time_budget = 0 /\ max_rounds = 0 /\ request_delay = 0
    /\ start_time = 0 /\ now = 0 /\ pc = "idle"
    /\ skip_browse_use = FALSE /\ veto = "none"
    /\ current_tasks = <<>> /\ i = 0 /\ web_results = <<>>
    /\ round_num = 0 /\ all_policies = <<>> /\ all_sources = <<>>
    /\ search_history = <<>> /\ retry_src = <<>> /\ targets = <<>>
    /\ bi = 0 /\ browse_policies = <<>> /\ final = <<>>
    /\ result = NoResult
    /\ dispatch_log = <<>> /\ skipped = 0 /\ batch_t0 = 0 /\ batches = 0
    /\ stop_seen = -1 /\ raised_by = "none"
    /\ plan_tasks = <<>> /\ calls = NoCalls /\ score_failed = FALSE
    /\ verdict = NoVerdict /\ own_start = 0

DedupIdle ==
    X = <<>> /\ out = <<>> /\ out2 = <<>> /\ dpc = "off"
    /\ scored_policies = <<>>

InitDedup ==
    /\ X \in ListsUpTo(RecPool, MaxLen)
    /\ out = <<>> /\ out2 = <<>> /\ dpc = "in"
    /\ scored_policies = <<>>
    /\ RunIdle

\* final = self.deduplicate(combined)
DedupOnce ==
    /\ dpc = "in"
    /\ out' = deduplicate(X)
    /\ dpc' = "once"
    /\ UNCHANGED << X, out2, scored_policies >>
    /\ UNCHANGED runVars

\* deduplicate applied to its own output
DedupTwice ==
    /\ dpc = "once"
    /\ out2' = deduplicate(out)
    /\ dpc' = "twice"
    /\ UNCHANGED << X, out, scored_policies >>
    /\ UNCHANGED runVars

NextDedup == DedupOnce \/ DedupTwice

SpecDedup == InitDedup /\ [][NextDedup]_vars

-----------------------------------------------------------------------------
(* deduplicate on titles and urls that contain the key separator *)

\* titles and urls with and without "||" inside
BarTitles == { << "a" >>, << "a", "|", "|", "b" >> }
BarUrls == { << "c" >>, << "b", "|", "|", "c" >> }

BarPool ==
    { PolicyItem(t, u, s, "", "", "", "", 0) :
        t \in BarTitles, u \in BarUrls, s \in { <<>>, << "x" >> } }

InitKey ==
    /\ X \in ListsUpTo(BarPool, MaxLen)
    /\ out = <<>> /\ out2 = <<>> /\ dpc = "in"
    /\ scored_policies = <<>>
    /\ RunIdle

NextKey == DedupOnce \/ DedupTwice

SpecKey == InitKey /\ [][NextKey]_vars

-----------------------------------------------------------------------------
(* BudgetClock: _time_remaining and _is_timeout *)

cfgVars == << time_budget, max_rounds, request_delay, skip_browse_use >>

Max(a, b) == IF a >= b THEN a ELSE b

RemainingNoFloor(t) == time_budget - (t - start_time)

\* max(0, self.time_budget - (time.time() - self._start_time)) at time t
RemainingAt(t) == Max(0, time_budget - (t - start_time))

TimeRemainingAtStart == RemainingAt(start_time)

TimeRemaining == RemainingAt(now)

\* time.time() - self._start_time >= self.time_budget
IsTimeout == now - start_time >= time_budget

-----------------------------------------------------------------------------
(* Collaborators: what they may return and how long they may take.        *)
(* Two profiles bound their behaviour: under "clock" calls are fast or    *)
(* slow and return few records, under "records" calls are fast and return *)
(* overlapping records.                                                    *)

Task(term, layer, dim) ==
    [search_term |-> term, layer |-> layer, dimension |-> dim]

\* latency of one collaborator call, in seconds
Lats(P) == IF P = "clock" THEN { 1, 150 } ELSE { 1 }

\* records a search may return: A1 and A2 share an identity key
A1 == PolicyItem(K1.title, K1.url, <<>>, "", "p", "", "", 0)
A2 == PolicyItem(K2.title, K2.url, << "x" >>, "", "", "", "", 0)
B1 == PolicyItem(K4.title, K4.url, << "y" >>, "s", "", "", "", 0)

\* what SearchExecutor.search returns on success: records and source urls
SearchReturns(P) ==
    { [policies |-> <<>>, sources |-> <<>>],
      [policies |-> << A1 >>, sources |-> << "s1" >>] }
    \cup
    IF P = "records"
    THEN { [policies |-> << B1, A2 >>, sources |-> << "s1", "s1" >>] }
    ELSE IF P = "scenario"
    THEN { [policies |-> << B1, A1 >>, sources |-> << "s1", "s2" >>] }
    ELSE {}

\* tasks the Planner and the Reviewer may propose
T1 == Task(<< "q", 1 >>, << "L" >>, "space")
T2 == Task(<< "q", 2 >>, << "M" >>, "compliance")
T3 == Task(<< "q", 3 >>, << "L" >>, "space")
T4 == Task(<< "q", 4 >>, << "H" >>, "space")

\* plan["tasks"]
PlanTaskLists == { <<>>, << T1 >>, << T1, T2 >>, << T1, T1 >> }

\* plan["tasks"] under a profile: the "scenario" profile plans one task in
\* each of three layers
PlanLists(P) ==
    IF P = "scenario" THEN { << T1, T2, T4 >> } ELSE PlanTaskLists

\* plan["compliance_veto"]: absent, failed with risk_level "blocked",
\* failed with another risk level
Vetoes == { "none", "blocked", "high" }

\* review["need_more_search"], review["retry_tasks"]
ReviewVerdicts ==
    [ need_more_search : BOOLEAN,
      retry_tasks : { <<>>, << T1 >>, << T3 >>, << T1, T3 >>, << T2 >> } ]

\* evaluation["browse_targets"]
G1 == [title |-> K1.title, url |-> K1.url]
G2 == [title |-> K4.title, url |-> K4.url]
TargetLists == { <<>>, << G1 >>, << G1, G2 >> }

\* records a deep fetch may return: D1 is the item of A1 and A2, in full,
\* D2 the item of B1
D1 == PolicyItem(K2.title, K1.url, << "x", "y" >>, "", "", "f", "", 0)
D2 == PolicyItem(K4.title, K4.url, << "y" >>, "", "", "f", "", 0)
D3 == PolicyItem(<< "c" >>, K1.url, << "z" >>, "", "", "f", "", 0)
BrowseReturns(P) ==
    { << D1 >> } \cup IF P = "records" THEN { << D2 >> }
                      ELSE IF P = "scenario" THEN { << D3 >> } ELSE {}

\* result["scored_policies"]: 1-based index (0 when missing) and relevance;
\* a run of the "records" profile holds at most two records, so 0 and (on
\* one record) 2 are out of range
ScoreEntries ==
    { [index |-> 1, relevance |-> 40], [index |-> 1, relevance |-> 80],
      [index |-> 2, relevance |-> 80], [index |-> 0, relevance |-> 80] }

ScoreLists(P) ==
    IF P = "records" THEN ListsUpTo(ScoreEntries, MaxScored)
    ELSE { <<>>, << [index |-> 2, relevance |-> 80] >> }

-----------------------------------------------------------------------------
(* _run_web_searches: the TaskExecutor *)

\* f"web_search({layer})"
WorkerTag(layer) == << "web_search(" >> \o layer \o << ")" >>

WorkerResult(q, ps, srcs, w, err) ==
    [query |-> q, policies |-> ps, sources |-> srcs, worker |-> w,
     error |-> err]

SearchTaskAbortOnFailure(ok, ret, lat) ==
    /\ pc = "batch"
    /\ i <= Len(current_tasks)
    /\ ~IsTimeout
    /\ LET task == current_tasks[i]
           term == task.search_term
           w == WorkerTag(task.layer)
           entry == IF ok THEN WorkerResult(term, ret.policies, ret.sources,
                                            w, "")
                    ELSE WorkerResult(term, <<>>, <<>>, w, "failed")
           sleep == IF i < Len(current_tasks) /\ request_delay > 0
                    THEN request_delay ELSE 0
       IN  /\ web_results' = IF ok THEN Append(web_results, entry)
                             ELSE web_results
           /\ dispatch_log' = Append(dispatch_log,
                  [term |-> term, at |-> now, ok |-> ok,
                   policies |-> IF ok THEN ret.policies ELSE <<>>,
                   sources |-> IF ok THEN ret.sources ELSE <<>>,
                   lat |-> lat, slept |-> sleep])
           /\ now' = now + lat + sleep
           /\ i' = IF ok THEN i + 1 ELSE Len(current_tasks) + 1
    /\ UNCHANGED << cfgVars, start_time, pc, veto, current_tasks, round_num,
                    all_policies, all_sources, search_history, retry_src,
                    targets, bi, browse_policies, final, result, skipped,
                    batch_t0, batches, stop_seen, raised_by >>
    /\ UNCHANGED << dedupVars, callVars, obsVars >>

SearchTaskNoClockCheck(ok, ret, lat) ==
    /\ pc = "batch"
    /\ i <= Len(current_tasks)
    /\ LET task == current_tasks[i]
           term == task.search_term
           w == WorkerTag(task.layer)
           entry == IF ok THEN WorkerResult(term, ret.policies, ret.sources,
                                            w, "")
                    ELSE WorkerResult(term, <<>>, <<>>, w, "failed")
           sleep == IF i < Len(current_tasks) /\ request_delay > 0
                    THEN request_delay ELSE 0
       IN  /\ web_results' = Append(web_results, entry)
           /\ dispatch_log' = Append(dispatch_log,
                  [term |-> term, at |-> now, ok |-> ok,
                   policies |-> IF ok THEN ret.policies ELSE <<>>,
                   sources |-> IF ok THEN ret.sources ELSE <<>>,
                   lat |-> lat, slept |-> sleep])
           /\ now' = now + lat + sleep
           /\ i' = i + 1
    /\ UNCHANGED << cfgVars, start_time, pc, veto, current_tasks, round_num,
                    all_policies, all_sources, search_history, retry_src,
                    targets, bi, browse_policies, final, result, skipped,
                    batch_t0, batches, stop_seen, raised_by >>
    /\ UNCHANGED << dedupVars, callVars, obsVars >>

SearchTaskSleepsOnSuccessOnly(ok, ret, lat) ==
    /\ pc = "batch"
    /\ i <= Len(current_tasks)
    /\ ~IsTimeout
    /\ LET task == current_tasks[i]
           term == task.search_term
           w == WorkerTag(task.layer)
           entry == IF ok THEN WorkerResult(term, ret.policies, ret.sources,
                                            w, "")
                    ELSE WorkerResult(term, <<>>, <<>>, w, "failed")
           sleep == IF ok /\ i < Len(current_tasks) /\ request_delay > 0
                    THEN request_delay ELSE 0
       IN  /\ web_results' = Append(web_results, entry)
           /\ dispatch_log' = Append(dispatch_log,
                  [term |-> term, at |-> now, ok |-> ok,
                   policies |-> IF ok THEN ret.policies ELSE <<>>,
                   sources |-> IF ok THEN ret.sources ELSE <<>>,
                   lat |-> lat, slept |-> sleep])
           /\ now' = now + lat + sleep
           /\ i' = i + 1
    /\ UNCHANGED << cfgVars, start_time, pc, veto, current_tasks, round_num,
                    all_policies, all_sources, search_history, retry_src,
                    targets, bi, browse_policies, final, result, skipped,
                    batch_t0, batches, stop_seen, raised_by >>
    /\ UNCHANGED << dedupVars, callVars, obsVars >>

\* one iteration of "for i, task in enumerate(tasks, 1)" that reaches
\* worker.search: the call, the except branch and the pacing sleep
SearchTask(ok, ret, lat) ==
    /\ pc = "batch"
    /\ i <= Len(current_tasks)
    /\ ~IsTimeout
    /\ LET task == current_tasks[i]
           term == task.search_term
           w == WorkerTag(task.layer)
           entry == IF ok THEN WorkerResult(term, ret.policies, ret.sources,
                                            w, "")
                    ELSE WorkerResult(term, <<>>, <<>>, w, "failed")
           sleep == IF i < Len(current_tasks) /\ request_delay > 0
                    THEN request_delay ELSE 0
       IN  /\ web_results' = Append(web_results, entry)
           /\ dispatch_log' = Append(dispatch_log,
                  [term |-> term, at |-> now, ok |-> ok,
                   policies |-> IF ok THEN ret.policies ELSE <<>>,
                   sources |-> IF ok THEN ret.sources ELSE <<>>,
                   lat |-> lat, slept |-> sleep])
           /\ now' = now + lat + sleep
           /\ i' = i + 1
    /\ UNCHANGED << cfgVars, start_time, pc, veto, current_tasks, round_num,
                    all_policies, all_sources, search_history, retry_src,
                    targets, bi, browse_policies, final, result, skipped,
                    batch_t0, batches, stop_seen, raised_by >>
    /\ UNCHANGED << dedupVars, callVars, obsVars >>

SearchOk(P) == \E ret \in SearchReturns(P), lat \in Lats(P) :
                   SearchTask(TRUE, ret, lat)

\* the search raised (except branch) or returned a result with error set:
\* either way one entry with error set and no records is appended
SearchFail(P) == \E lat \in Lats(P) :
                   SearchTask(FALSE, [policies |-> <<>>, sources |-> <<>>],
                              lat)

BatchTimeoutOffByOne ==
    /\ pc = "batch"
    /\ i <= Len(current_tasks)
    /\ IsTimeout
    /\ skipped' = Len(current_tasks) - i
    /\ pc' = "batch_ret"
    /\ UNCHANGED << cfgVars, start_time, now, veto, current_tasks, i,
                    web_results, round_num, all_policies, all_sources,
                    search_history, retry_src, targets, bi, browse_policies,
                    final, result, dispatch_log, batch_t0, batches,
                    stop_seen, raised_by >>
    /\ UNCHANGED << dedupVars, callVars, obsVars >>

\* "if self._is_timeout(): ... break": the rest of the batch is skipped and
\* the number of skipped tasks is logged
BatchTimeout ==
    /\ pc = "batch"
    /\ i <= Len(current_tasks)
    /\ IsTimeout
    /\ skipped' = Len(current_tasks) - i + 1
    /\ pc' = "batch_ret"
    /\ UNCHANGED << cfgVars, start_time, now, veto, current_tasks, i,
                    web_results, round_num, all_policies, all_sources,
                    search_history, retry_src, targets, bi, browse_policies,
                    final, result, dispatch_log, batch_t0, batches,
                    stop_seen, raised_by >>
    /\ UNCHANGED << dedupVars, callVars, obsVars >>

\* the for loop is exhausted: worker.close(); return results
BatchEnd ==
    /\ pc = "batch"
    /\ i > Len(current_tasks)
    /\ pc' = "batch_ret"
    /\ UNCHANGED << cfgVars, start_time, now, veto, current_tasks, i,
                    web_results, round_num, all_policies, all_sources,
                    search_history, retry_src, targets, bi, browse_policies,
                    final, result, dispatch_log, skipped, batch_t0, batches,
                    stop_seen, raised_by >>
    /\ UNCHANGED << dedupVars, callVars, obsVars >>

-----------------------------------------------------------------------------
(* _run_web_searches on its own: one batch, the clock started with it *)

BatchBudgets == { 10, 300 }
Delays == { 0, 5 }

\* the n-th task of a stand-alone batch: distinct phrases, two layers
BatchTask(n) ==
    Task(<< "b", n >>, IF n % 2 = 1 THEN << "L" >> ELSE << "M" >>, "space")

InitBatch ==
    /\ DedupIdle
    /\ time_budget \in BatchBudgets
    /\ request_delay \in Delays
    /\ max_rounds = 1
    /\ start_time = 0 /\ now = 0 /\ batch_t0 = 0
    /\ pc = "batch"
    /\ \E n \in 1..MaxTasks : current_tasks = [ k \in 1..n |-> BatchTask(k) ]
    /\ i = 1 /\ web_results = <<>>
    /\ skip_browse_use = FALSE /\ veto = "none"
    /\ round_num = 1 /\ all_policies = <<>> /\ all_sources = <<>>
    /\ search_history = <<>> /\ retry_src = <<>> /\ targets = <<>>
    /\ bi = 0 /\ browse_policies = <<>> /\ final = <<>>
    /\ result = NoResult
    /\ dispatch_log = <<>> /\ skipped = 0 /\ batches = 1
    /\ stop_seen = -1 /\ raised_by = "none"
    /\ plan_tasks = <<>> /\ calls = NoCalls /\ score_failed = FALSE
    /\ verdict = NoVerdict /\ own_start = 0

NextBatch ==
    SearchOk("clock") \/ SearchFail("clock") \/ BatchTimeout \/ BatchEnd

SpecBatch == InitBatch /\ [][NextBatch]_vars

-----------------------------------------------------------------------------
(* Orchestrator.run *)

Budgets == { 0, 200, 300 }
RecordBudgets == { 3, 1000 }
RunDelay == 5

ReviewMinimum == 45
BrowseMinimum == 90

Phrases(ts) == [ n \in 1..Len(ts) |-> ts[n].search_term ]

\* r.worker.replace("web_search(", "").rstrip(")")
RECURSIVE RStripParen(_)
RStripParen(s) ==
    IF s # <<>> /\ s[Len(s)] = ")" THEN RStripParen(SubSeq(s, 1, Len(s) - 1))
    ELSE s

\* str.replace("web_search(", ""): drop every occurrence of the prefix
RECURSIVE DropPrefixToken(_)
DropPrefixToken(s) ==
    IF s = <<>> THEN <<>>
    ELSE IF Head(s) = "web_search(" THEN DropPrefixToken(Tail(s))
    ELSE << Head(s) >> \o DropPrefixToken(Tail(s))

LayerTag(worker) == RStripParen(DropPrefixToken(worker))

RECURSIVE Flatten(_)
Flatten(ss) == IF ss = <<>> THEN <<>> ELSE Head(ss) \o Flatten(Tail(ss))

\* "for r in web_results": the records of the round, tagged with the layer
RoundPolicies(rs) ==
    Flatten([ n \in 1..Len(rs) |->
                [ m \in 1..Len(rs[n].policies) |->
                    [rs[n].policies[m] EXCEPT
                        !.layer = LayerTag(rs[n].worker)] ] ])

RoundSources(rs) == Flatten([ n \in 1..Len(rs) |-> rs[n].sources ])

InitRunWith(B) ==
    /\ DedupIdle
    /\ time_budget \in B
    /\ max_rounds \in 1..MaxRounds
    /\ request_delay = RunDelay
    /\ skip_browse_use \in BOOLEAN
    /\ start_time = 0 /\ now = 0 /\ batch_t0 = 0
    /\ pc = "start"
    /\ veto = "none"
    /\ current_tasks = <<>> /\ i = 0 /\ web_results = <<>>
    /\ round_num = 0 /\ all_policies = <<>> /\ all_sources = <<>>
    /\ search_history = <<>> /\ retry_src = <<>> /\ targets = <<>>
    /\ bi = 0 /\ browse_policies = <<>> /\ final = <<>>
    /\ result = NoResult
    /\ dispatch_log = <<>> /\ skipped = 0 /\ batches = 0
    /\ stop_seen = -1 /\ raised_by = "none"
    /\ plan_tasks = <<>> /\ calls = NoCalls /\ score_failed = FALSE
    /\ verdict = NoVerdict /\ own_start = 0

ComplianceOnlyKeepsAll(tasks) == tasks

\* [t for t in tasks if t.get("dimension") == "合规"] (the compliance
\* dimension)
RECURSIVE ComplianceOnly(_)
ComplianceOnly(tasks) ==
    IF tasks = <<>> THEN <<>>
    ELSE IF Head(tasks).dimension = "compliance"
         THEN << Head(tasks) >> \o ComplianceOnly(Tail(tasks))
         ELSE ComplianceOnly(Tail(tasks))

\* self._start_time = time.time(); _enrich_company_info (its failures are
\* caught inside, only time passes); self.plan(enriched_info) raises:
\* nothing in run catches it
PlanRaises(P) ==
    /\ pc = "start"
    /\ start_time' = now
    /\ own_start' = now
    /\ \E lat \in Lats(P) : now' = now + lat
    /\ pc' = "raised"
    /\ raised_by' = "planner"
    /\ UNCHANGED << cfgVars, veto, current_tasks, i, web_results, round_num,
                    all_policies, all_sources, search_history, retry_src,
                    targets, bi, browse_policies, final, result,
                    dispatch_log, skipped, batch_t0, batches, stop_seen >>
    /\ calls' = [calls EXCEPT !.planner = @ + 1]
    /\ UNCHANGED << dedupVars, plan_tasks, score_failed, verdict >>

PlanNoEmptyCheck(P) ==
    /\ pc = "start"
    /\ start_time' = now
    /\ own_start' = now
    /\ \E lat \in Lats(P), tl \in PlanLists(P), v \in Vetoes :
         LET tasks == IF v = "blocked" THEN ComplianceOnly(tl) ELSE tl
         IN  /\ now' = now + lat
             /\ veto' = v
             /\ plan_tasks' = tl
             /\ IF tasks = <<>> /\ v = "blocked"
                THEN /\ pc' = "done"
                     /\ result' = [policies |-> <<>>, sources |-> <<>>,
                                   error |-> IF v = "blocked" THEN "blocked"
                                             ELSE "no_tasks",
                                   worker |-> IF v = "blocked"
                                              THEN "orchestrator" ELSE ""]
                     /\ UNCHANGED current_tasks
                ELSE /\ pc' = "loop"
                     /\ current_tasks' = tasks
                     /\ UNCHANGED result
    /\ UNCHANGED << cfgVars, i, web_results, round_num, all_policies,
                    all_sources, search_history, retry_src, targets, bi,
                    browse_policies, final, dispatch_log, skipped, batch_t0,
                    batches, stop_seen, raised_by >>
    /\ calls' = [calls EXCEPT !.planner = @ + 1]
    /\ UNCHANGED << dedupVars, score_failed, verdict >>

\* the same with plan returning; the veto check narrows the tasks to the
\* compliance dimension; an empty list ends the run with an error
Plan(P) ==
    /\ pc = "start"
    /\ start_time' = now
    /\ own_start' = now
    /\ \E lat \in Lats(P), tl \in PlanLists(P), v \in Vetoes :
         LET tasks == IF v = "blocked" THEN ComplianceOnly(tl) ELSE tl
         IN  /\ now' = now + lat
             /\ veto' = v
             /\ plan_tasks' = tl
             /\ IF tasks = <<>>
                THEN /\ pc' = "done"
                     /\ result' = [policies |-> <<>>, sources |-> <<>>,
                                   error |-> IF v = "blocked" THEN "blocked"
                                             ELSE "no_tasks",
                                   worker |-> IF v = "blocked"
                                              THEN "orchestrator" ELSE ""]
                     /\ UNCHANGED current_tasks
                ELSE /\ pc' = "loop"
                     /\ current_tasks' = tasks
                     /\ UNCHANGED result
    /\ UNCHANGED << cfgVars, i, web_results, round_num, all_policies,
                    all_sources, search_history, retry_src, targets, bi,
                    browse_policies, final, dispatch_log, skipped, batch_t0,
                    batches, stop_seen, raised_by >>
    /\ calls' = [calls EXCEPT !.planner = @ + 1]
    /\ UNCHANGED << dedupVars, score_failed, verdict >>

\* "while round_num < self.max_rounds: round_num += 1; if timeout: break";
\* otherwise _run_web_searches is started on current_tasks
LoopHead ==
    /\ pc = "loop"
    /\ IF round_num < max_rounds
       THEN /\ round_num' = round_num + 1
            /\ IF IsTimeout
               THEN /\ pc' = "escalate"
                    /\ UNCHANGED << i, web_results, skipped, batch_t0,
                                    batches >>
               ELSE /\ pc' = "batch"
                    /\ i' = 1
                    /\ web_results' = <<>>
                    /\ skipped' = 0
                    /\ batch_t0' = now
                    /\ batches' = batches + 1
       ELSE /\ pc' = "escalate"
            /\ UNCHANGED << round_num, i, web_results, skipped, batch_t0,
                            batches >>
    /\ UNCHANGED << cfgVars, start_time, now, veto, current_tasks,
                    all_policies, all_sources, search_history, retry_src,
                    targets, bi, browse_policies, final, result,
                    dispatch_log, stop_seen, raised_by >>
    /\ UNCHANGED << dedupVars, callVars, obsVars >>

\* a stop condition that can hold once a round's results are folded
StopAfterRound == round_num >= max_rounds \/ IsTimeout

FoldRoundNoRoundLimit ==
    /\ pc = "batch_ret"
    /\ all_policies' = all_policies \o RoundPolicies(web_results)
    /\ all_sources' = all_sources \o RoundSources(web_results)
    /\ search_history' = search_history \o Phrases(current_tasks)
    /\ pc' = IF TimeRemaining < ReviewMinimum
             THEN "escalate" ELSE "review"
    /\ stop_seen' = IF StopAfterRound THEN batches ELSE stop_seen
    /\ UNCHANGED << cfgVars, start_time, now, veto, current_tasks, i,
                    web_results, round_num, retry_src, targets, bi,
                    browse_policies, final, result, dispatch_log, skipped,
                    batch_t0, batches, raised_by >>
    /\ UNCHANGED << dedupVars, callVars, obsVars >>

\* the batch returned: fold its results, record the phrases, then the two
\* exits "round_num >= max_rounds" and "_time_remaining() < 45"
FoldRound ==
    /\ pc = "batch_ret"
    /\ all_policies' = all_policies \o RoundPolicies(web_results)
    /\ all_sources' = all_sources \o RoundSources(web_results)
    /\ search_history' = search_history \o Phrases(current_tasks)
    /\ pc' = IF round_num >= max_rounds \/ TimeRemaining < ReviewMinimum
             THEN "escalate" ELSE "review"
    /\ stop_seen' = IF StopAfterRound THEN batches ELSE stop_seen
    /\ UNCHANGED << cfgVars, start_time, now, veto, current_tasks, i,
                    web_results, round_num, retry_src, targets, bi,
                    browse_policies, final, result, dispatch_log, skipped,
                    batch_t0, batches, raised_by >>
    /\ UNCHANGED << dedupVars, callVars, obsVars >>

NewTasksUnfiltered(retry_tasks, history) == retry_tasks

\* [t for t in retry_tasks if t.get("search_term", "") not in search_history]
RECURSIVE NewTasks(_, _)
NewTasks(retry_tasks, history) ==
    IF retry_tasks = <<>> THEN <<>>
    ELSE IF Head(retry_tasks).search_term \notin Range(history)
         THEN << Head(retry_tasks) >> \o NewTasks(Tail(retry_tasks), history)
         ELSE NewTasks(Tail(retry_tasks), history)

\* a stop condition that can hold once a verdict is returned (besides the
\* budget having expired meanwhile)
StopAfterReview(rv) ==
    \/ ~rv.need_more_search
    \/ rv.retry_tasks = <<>>
    \/ \A n \in 1..Len(rv.retry_tasks) :
           rv.retry_tasks[n].search_term \in Range(search_history)

\* review = self._review_round(...) raises: nothing in run catches it
ReviewRaises(P) ==
    /\ pc = "review"
    /\ \E lat \in Lats(P) : now' = now + lat
    /\ pc' = "raised"
    /\ raised_by' = "reviewer"
    /\ UNCHANGED << cfgVars, start_time, veto, current_tasks, i, web_results,
                    round_num, all_policies, all_sources, search_history,
                    retry_src, targets, bi, browse_policies, final, result,
                    dispatch_log, skipped, batch_t0, batches, stop_seen >>
    /\ calls' = [calls EXCEPT !.reviewer = @ + 1]
    /\ UNCHANGED << dedupVars, plan_tasks, score_failed, obsVars >>

ReviewIgnoresVerdict(P) ==
    /\ pc = "review"
    /\ \E lat \in Lats(P), rv \in ReviewVerdicts :
         LET new_tasks == NewTasks(rv.retry_tasks, search_history)
         IN  /\ now' = now + lat
             /\ verdict' = IF P = "records" THEN verdict ELSE rv
             /\ stop_seen' = IF \/ StopAfterReview(rv)
                                \/ RemainingAt(now + lat) = 0
                             THEN batches ELSE stop_seen
             /\ IF \/ rv.retry_tasks = <<>>
                   \/ new_tasks = <<>>
                THEN /\ pc' = "escalate"
                     /\ UNCHANGED << current_tasks, retry_src >>
                ELSE /\ pc' = "loop"
                     /\ current_tasks' = new_tasks
                     /\ retry_src' = rv.retry_tasks
    /\ UNCHANGED << cfgVars, start_time, veto, i, web_results, round_num,
                    all_policies, all_sources, search_history, targets, bi,
                    browse_policies, final, result, dispatch_log, skipped,
                    batch_t0, batches, raised_by >>
    /\ calls' = [calls EXCEPT !.reviewer = @ + 1]
    /\ UNCHANGED << dedupVars, plan_tasks, score_failed, own_start >>

\* the verdict is returned (non-JSON output comes back from _ai_call as a
\* dict without "need_more_search", i.e. as the verdict FALSE / no tasks);
\* then the three exits and "current_tasks = new_tasks"
Review(P) ==
    /\ pc = "review"
    /\ \E lat \in Lats(P), rv \in ReviewVerdicts :
         LET new_tasks == NewTasks(rv.retry_tasks, search_history)
         IN  /\ now' = now + lat
             /\ verdict' = IF P = "records" THEN verdict ELSE rv
             /\ stop_seen' = IF \/ StopAfterReview(rv)
                                \/ RemainingAt(now + lat) = 0
                             THEN batches ELSE stop_seen
             /\ IF \/ ~rv.need_more_search
                   \/ rv.retry_tasks = <<>>
                   \/ new_tasks = <<>>
                THEN /\ pc' = "escalate"
                     /\ UNCHANGED << current_tasks, retry_src >>
                ELSE /\ pc' = "loop"
                     /\ current_tasks' = new_tasks
                     /\ retry_src' = rv.retry_tasks
    /\ UNCHANGED << cfgVars, start_time, veto, i, web_results, round_num,
                    all_policies, all_sources, search_history, targets, bi,
                    browse_policies, final, result, dispatch_log, skipped,
                    batch_t0, batches, raised_by >>
    /\ calls' = [calls EXCEPT !.reviewer = @ + 1]
    /\ UNCHANGED << dedupVars, plan_tasks, score_failed, own_start >>

EscalationOpenIgnoresSkip ==
    /\ all_policies # <<>>
    /\ TimeRemaining > BrowseMinimum

\* "if not skip_browse_use and all_policies: if self._time_remaining() > 90"
EscalationOpen ==
    /\ ~skip_browse_use
    /\ all_policies # <<>>
    /\ TimeRemaining > BrowseMinimum

EscalateSkip ==
    /\ pc = "escalate"
    /\ ~EscalationOpen
    /\ pc' = "merge"
    /\ UNCHANGED << cfgVars, start_time, now, veto, current_tasks, i, web_results,
                    round_num, all_policies, all_sources, search_history,
                    retry_src, targets, bi, browse_policies, final, result,
                    dispatch_log, skipped, batch_t0, batches, stop_seen,
                    raised_by >>
    /\ UNCHANGED << dedupVars, callVars, obsVars >>

\* evaluation = self._evaluate_results(all_policies) raises: not caught
JudgeRaises(P) ==
    /\ pc = "escalate"
    /\ EscalationOpen
    /\ \E lat \in Lats(P) : now' = now + lat
    /\ pc' = "raised"
    /\ raised_by' = "judge"
    /\ UNCHANGED << cfgVars, start_time, veto, current_tasks, i, web_results,
                    round_num, all_policies, all_sources, search_history,
                    retry_src, targets, bi, browse_policies, final, result,
                    dispatch_log, skipped, batch_t0, batches, stop_seen >>
    /\ calls' = [calls EXCEPT !.judge = @ + 1]
    /\ UNCHANGED << dedupVars, plan_tasks, score_failed, obsVars >>

EvaluateNoRecheck(P) ==
    /\ pc = "escalate"
    /\ EscalationOpen
    /\ \E lat \in Lats(P), tg \in TargetLists :
         /\ now' = now + lat
         /\ targets' = tg
         /\ IF tg # <<>>
            THEN pc' = "browse" /\ bi' = 1
            ELSE pc' = "merge" /\ UNCHANGED bi
    /\ UNCHANGED << cfgVars, start_time, veto, current_tasks, i, web_results,
                    round_num, all_policies, all_sources, search_history,
                    retry_src, browse_policies, final, result, dispatch_log,
                    skipped, batch_t0, batches, stop_seen, raised_by >>
    /\ calls' = [calls EXCEPT !.judge = @ + 1]
    /\ UNCHANGED << dedupVars, plan_tasks, score_failed, obsVars >>

\* the judge returns its targets; "if targets and _time_remaining() > 90"
Evaluate(P) ==
    /\ pc = "escalate"
    /\ EscalationOpen
    /\ \E lat \in Lats(P), tg \in TargetLists :
         /\ now' = now + lat
         /\ targets' = tg
         /\ IF tg # <<>> /\ RemainingAt(now + lat) > BrowseMinimum
            THEN pc' = "browse" /\ bi' = 1
            ELSE pc' = "merge" /\ UNCHANGED bi
    /\ UNCHANGED << cfgVars, start_time, veto, current_tasks, i, web_results,
                    round_num, all_policies, all_sources, search_history,
                    retry_src, browse_policies, final, result, dispatch_log,
                    skipped, batch_t0, batches, stop_seen, raised_by >>
    /\ calls' = [calls EXCEPT !.judge = @ + 1]
    /\ UNCHANGED << dedupVars, plan_tasks, score_failed, obsVars >>

\* one iteration of "for i, target in enumerate(targets, 1)" of
\* _run_browse_use: the deep fetch and its except branch
BrowseTarget(ok, recs, lat) ==
    /\ pc = "browse"
    /\ bi <= Len(targets)
    /\ browse_policies' = IF ok THEN browse_policies \o recs
                          ELSE browse_policies
    /\ now' = now + lat
    /\ bi' = bi + 1
    /\ pc' = IF bi + 1 > Len(targets) THEN "merge" ELSE "browse"
    /\ UNCHANGED << cfgVars, start_time, veto, current_tasks, i, web_results,
                    round_num, all_policies, all_sources, search_history,
                    retry_src, targets, final, result, dispatch_log, skipped,
                    batch_t0, batches, stop_seen, raised_by >>
    /\ UNCHANGED << dedupVars, callVars, obsVars >>

BrowseOk(P) == \E recs \in BrowseReturns(P), lat \in Lats(P) :
                   BrowseTarget(TRUE, recs, lat)

BrowseFail(P) == \E lat \in Lats(P) : BrowseTarget(FALSE, <<>>, lat)

RECURSIVE ApplyScoresZeroBased(_, _)
ApplyScoresZeroBased(policies, scored) ==
    IF scored = <<>> THEN policies
    ELSE LET item == Head(scored)
             idx == item.index
         IN  ApplyScoresZeroBased(
                 IF 0 <= idx /\ idx < Len(policies)
                 THEN [policies EXCEPT ![idx + 1].relevance = item.relevance]
                 ELSE policies,
                 Tail(scored))

\* "for item in scored": a valid 1-based index writes the record's scores
RECURSIVE ApplyScores(_, _)
ApplyScores(policies, scored) ==
    IF scored = <<>> THEN policies
    ELSE LET item == Head(scored)
             idx == item.index - 1
         IN  ApplyScores(
                 IF 0 <= idx /\ idx < Len(policies)
                 THEN [policies EXCEPT ![idx + 1].relevance = item.relevance]
                 ELSE policies,
                 Tail(scored))

InsertBeforeEqual(sorted, p) ==
    LET pos == Cardinality({ n \in 1..Len(sorted) :
                               sorted[n].relevance > p.relevance })
    IN  SubSeq(sorted, 1, pos) \o << p >>
            \o SubSeq(sorted, pos + 1, Len(sorted))

\* insert p behind every record whose relevance is at least p's
InsertByRelevance(sorted, p) ==
    LET pos == Cardinality({ n \in 1..Len(sorted) :
                               sorted[n].relevance >= p.relevance })
    IN  SubSeq(sorted, 1, pos) \o << p >>
            \o SubSeq(sorted, pos + 1, Len(sorted))

\* policies.sort(key=lambda p: p.relevance, reverse=True), a stable sort
RECURSIVE SortByRelevance(_)
SortByRelevance(policies) ==
    IF policies = <<>> THEN <<>>
    ELSE InsertByRelevance(
             SortByRelevance(SubSeq(policies, 1, Len(policies) - 1)),
             policies[Len(policies)])

\* list(set(xs)): the elements of xs once each, in the order the set
\* iterates, which the caller does not control
ListOfSet(xs) ==
    { l \in [1..Cardinality(Range(xs)) -> Range(xs)] : Range(l) = Range(xs) }

PackageTimeoutAsError(policies) ==
    { [policies |-> policies, sources |-> srcs,
       error |-> IF IsTimeout THEN "timeout" ELSE "",
       worker |-> "orchestrator"] : srcs \in ListOfSet(all_sources) }

PackageKeepsDuplicates(policies) ==
    { [policies |-> policies, sources |-> all_sources, error |-> "",
       worker |-> "orchestrator"] }

\* result = WorkerResult(policies=final, sources=list(set(all_sources)), ..)
\* the results the statement can build, one per iteration order of the set
Package(policies) ==
    { [policies |-> policies, sources |-> srcs, error |-> "",
       worker |-> "orchestrator"] : srcs \in ListOfSet(all_sources) }

MergeSearchOnly ==
    /\ pc = "merge"
    /\ final' = deduplicate(all_policies)
    /\ IF final' # <<>> /\ ~IsTimeout
       THEN pc' = "score" /\ UNCHANGED result
       ELSE pc' = "done" /\ result' \in Package(final')
    /\ UNCHANGED << cfgVars, start_time, now, veto, current_tasks, i, web_results,
                    round_num, all_policies, all_sources, search_history,
                    retry_src, targets, bi, browse_policies, dispatch_log,
                    skipped, batch_t0, batches, stop_seen, raised_by >>
    /\ UNCHANGED << dedupVars, callVars, obsVars >>

\* combined = all_policies + browse_policies; final = deduplicate(combined);
\* without records or without budget the result is built at once
Merge ==
    /\ pc = "merge"
    /\ final' = deduplicate(all_policies \o browse_policies)
    /\ IF final' # <<>> /\ ~IsTimeout
       THEN pc' = "score" /\ UNCHANGED result
       ELSE pc' = "done" /\ result' \in Package(final')
    /\ UNCHANGED << cfgVars, start_time, now, veto, current_tasks, i, web_results,
                    round_num, all_policies, all_sources, search_history,
                    retry_src, targets, bi, browse_policies, dispatch_log,
                    skipped, batch_t0, batches, stop_seen, raised_by >>
    /\ UNCHANGED << dedupVars, callVars, obsVars >>

ScoreDropsUnscored(P) ==
    /\ pc = "score"
    /\ \E lat \in Lats(P), scored \in ScoreLists(P) :
         /\ now' = now + lat
         /\ final' = SelectSeq(SortByRelevance(ApplyScores(final, scored)),
                               LAMBDA p : p.relevance > 0)
         /\ result' \in Package(final')
    /\ pc' = "done"
    /\ UNCHANGED << cfgVars, start_time, veto, current_tasks, i, web_results,
                    round_num, all_policies, all_sources, search_history,
                    retry_src, targets, bi, browse_policies, dispatch_log,
                    skipped, batch_t0, batches, stop_seen, raised_by >>
    /\ calls' = [calls EXCEPT !.ranker = @ + 1]
    /\ UNCHANGED << dedupVars, plan_tasks, score_failed, obsVars >>

\* _score_policies with the Ranker answering, then the result is built
Score(P) ==
    /\ pc = "score"
    /\ \E lat \in Lats(P), scored \in ScoreLists(P) :
         /\ now' = now + lat
         /\ final' = SortByRelevance(ApplyScores(final, scored))
         /\ result' \in Package(final')
    /\ pc' = "done"
    /\ UNCHANGED << cfgVars, start_time, veto, current_tasks, i, web_results,
                    round_num, all_policies, all_sources, search_history,
                    retry_src, targets, bi, browse_policies, dispatch_log,
                    skipped, batch_t0, batches, stop_seen, raised_by >>
    /\ calls' = [calls EXCEPT !.ranker = @ + 1]
    /\ UNCHANGED << dedupVars, plan_tasks, score_failed, obsVars >>

ScoreFailsDropsRecords(P) ==
    /\ pc = "score"
    /\ \E lat \in Lats(P) : now' = now + lat
    /\ result' \in Package(<<>>)
    /\ pc' = "done"
    /\ UNCHANGED << cfgVars, start_time, veto, current_tasks, i, web_results,
                    round_num, all_policies, all_sources, search_history,
                    retry_src, targets, bi, browse_policies, final,
                    dispatch_log, skipped, batch_t0, batches, stop_seen,
                    raised_by >>
    /\ calls' = [calls EXCEPT !.ranker = @ + 1]
    /\ score_failed' = TRUE
    /\ UNCHANGED << dedupVars, plan_tasks, obsVars >>

\* _score_policies with the Ranker call raising: caught, list returned as is
ScoreFails(P) ==
    /\ pc = "score"
    /\ \E lat \in Lats(P) : now' = now + lat
    /\ result' \in Package(final)
    /\ pc' = "done"
    /\ UNCHANGED << cfgVars, start_time, veto, current_tasks, i, web_results,
                    round_num, all_policies, all_sources, search_history,
                    retry_src, targets, bi, browse_policies, final,
                    dispatch_log, skipped, batch_t0, batches, stop_seen,
                    raised_by >>
    /\ calls' = [calls EXCEPT !.ranker = @ + 1]
    /\ score_failed' = TRUE
    /\ UNCHANGED << dedupVars, plan_tasks, obsVars >>

RunStep(P) ==
    \/ PlanRaises(P) \/ Plan(P) \/ LoopHead
    \/ SearchOk(P) \/ SearchFail(P) \/ BatchTimeout \/ BatchEnd
    \/ FoldRound \/ ReviewRaises(P) \/ Review(P)
    \/ EscalateSkip \/ JudgeRaises(P) \/ Evaluate(P)
    \/ BrowseOk(P) \/ BrowseFail(P)
    \/ Merge \/ Score(P) \/ ScoreFails(P)

\* runs under the "clock" profile: budgets that expire during the run
InitRun == InitRunWith(Budgets)
NextRun == RunStep("clock")
SpecRun == InitRun /\ [][NextRun]_vars

\* runs under the "records" profile: overlapping records, ample or tiny
\* budget
InitMerge == InitRunWith(RecordBudgets)
NextMerge == RunStep("records")
SpecMerge == InitMerge /\ [][NextMerge]_vars

\* runs under the "scenario" profile: a plan of three tasks, searches that
\* return two, one or no record, a deep fetch that may bring a new record
InitScenario == InitRunWith(RecordBudgets)
NextScenario == RunStep("scenario")
SpecScenario == InitScenario /\ [][NextScenario]_vars

\* run is called a second time on the same Orchestrator object while this
\* run awaits its batch in the executor (line 1142, the only point where
\* run yields the event loop): the second call executes
\* "self._start_time = time.time()" on the field both runs read; its
\* records, history and round counter are locals of its own
OtherRunStarts ==
    /\ pc = "batch"
    /\ start_time = own_start
    /\ start_time' = now
    /\ UNCHANGED << cfgVars, now, pc, veto, current_tasks, i, web_results,
                    round_num, all_policies, all_sources, search_history,
                    retry_src, targets, bi, browse_policies, final, result,
                    dispatch_log, skipped, batch_t0, batches, stop_seen,
                    raised_by >>
    /\ UNCHANGED << dedupVars, callVars, obsVars >>

\* two runs on one Orchestrator object, seen from the first one
InitShared == InitRunWith(RecordBudgets)
NextShared == RunStep("shared") \/ OtherRunStarts
SpecShared == InitShared /\ [][NextShared]_vars

\* task.get("layer"): the Planner and the Reviewer write it freely
TagChars == { "L", "(", ")" }
TagPool == ListsUpTo(TagChars, MaxLen)

\* one round on its own, to follow the layer from the task to the stored
\* record: a batch of one or two tasks, the first with any layer of the
\* pool, searched and folded into the store (lines 1142-1162)
InitTag ==
    /\ DedupIdle
    /\ time_budget = 1000
    /\ request_delay = 0
    /\ max_rounds = 1
    /\ start_time = 0 /\ now = 0 /\ batch_t0 = 0
    /\ pc = "batch"
    /\ \E g \in TagPool :
         current_tasks \in
           { << Task(<< "b", 1 >>, g, "space") >>,
             << Task(<< "b", 1 >>, g, "space"),
                Task(<< "b", 2 >>, << "M" >>, "space") >> }
    /\ i = 1 /\ web_results = <<>>
    /\ skip_browse_use = FALSE /\ veto = "none"
    /\ round_num = 1 /\ all_policies = <<>> /\ all_sources = <<>>
    /\ search_history = <<>> /\ retry_src = <<>> /\ targets = <<>>
    /\ bi = 0 /\ browse_policies = <<>> /\ final = <<>>
    /\ result = NoResult
    /\ dispatch_log = <<>> /\ skipped = 0 /\ batches = 1
    /\ stop_seen = -1 /\ raised_by = "none"
    /\ plan_tasks = <<>> /\ calls = NoCalls /\ score_failed = FALSE
    /\ verdict = NoVerdict /\ own_start = 0

NextTag ==
    SearchOk("records") \/ SearchFail("records") \/ BatchEnd \/ FoldRound

SpecTag == InitTag /\ [][NextTag]_vars

-----------------------------------------------------------------------------
(* _score_policies on its own: a batch of records with distinct identity   *)
(* keys and the Ranker's reply, the write-back and the sort applied once   *)

A3 == PolicyItem(K3.title, K3.url, << "x" >>, "", "", "", "", 0)

\* batches the Deduplicator can hand over: up to three records
ScoreBatches == { deduplicate(l) : l \in ListsUpTo({ A1, B1, A3 }, MaxLen) }

\* entries of result["scored_policies"]: index 0 stands for a missing index
\* (item.get("index", 0)), -1 for a negative one, MaxLen + 1 is beyond any
\* batch
RankerEntries == [ index : -1..(MaxLen + 1), relevance : { 40, 80 } ]

InitScore ==
    /\ X \in ScoreBatches
    /\ scored_policies \in ListsUpTo(RankerEntries, MaxScored)
    /\ out = <<>> /\ out2 = <<>> /\ dpc = "rank"
    /\ RunIdle

\* the try block of _score_policies with the Ranker answering
ScoreOnce ==
    /\ dpc = "rank"
    /\ out' = SortByRelevance(ApplyScores(X, scored_policies))
    /\ dpc' = "ranked"
    /\ UNCHANGED << X, out2, scored_policies >>
    /\ UNCHANGED runVars

NextScore == ScoreOnce

SpecScore == InitScore /\ [][NextScore]_vars

-----------------------------------------------------------------------------
(* Notions used by the properties *)

\* identity key of a record: (trimmed title, trimmed url without trailing
\* slashes)
IdentityKey(p) == << Strip(p.title), RStripSlash(Strip(p.url)) >>

KeysOf(ps) == { IdentityKey(ps[n]) : n \in 1..Len(ps) }

NoDuplicateKeys(ps) ==
    \A m, n \in 1..Len(ps) : m # n => IdentityKey(ps[m]) # IdentityKey(ps[n])

\* positions of the input records that carry key k
Group(ps, k) == { n \in 1..Len(ps) : IdentityKey(ps[n]) = k }

MaxSummaryLen(ps, k) ==
    CHOOSE l \in { Len(ps[n].summary) : n \in Group(ps, k) } :
        \A n \in Group(ps, k) : Len(ps[n].summary) <= l

FirstLongest(ps, k) ==
    CHOOSE n \in Group(ps, k) :
        /\ Len(ps[n].summary) = MaxSummaryLen(ps, k)
        /\ \A m \in Group(ps, k) :
              Len(ps[m].summary) = MaxSummaryLen(ps, k) => n <= m

-----------------------------------------------------------------------------
(* Properties of deduplicate *)

\* C2: if some input record with key k has a non-empty pdf_url (support,
\* full_text), the output record for k has a non-empty pdf_url (support,
\* full_text): merging never loses a populated field.
C2_MergeMonotone ==
    dpc # "in" =>
        \A n \in 1..Len(X) : \A o \in Range(out) :
            IdentityKey(o) = IdentityKey(X[n]) =>
                /\ (X[n].pdf_url # "" => o.pdf_url # "")
                /\ (X[n].support # "" => o.support # "")
                /\ (X[n].full_text # "" => o.full_text # "")

C4_DedupIdempotent ==
    dpc = "twice" =>
        /\ KeysOf(out2) = KeysOf(out)
        /\ Len(out2) = Len(out)

\* the first application merged records and kept more than one key, one of
\* them with a blank left at the end of its normalised url
C4_Witness ==
    /\ dpc = "twice"
    /\ Len(out) < Len(X)
    /\ Len(out) >= 2
    /\ \E o \in Range(out) : o.url = K3.url

-----------------------------------------------------------------------------
(* Properties of _run_web_searches *)

\* C9: every task of a batch is attempted once, in order, until the budget
\* is found expired at a task's turn; a failed task leaves one result entry
\* with error set and no records, a successful task leaves its records.
C9_TaskIsolation ==
    /\ Len(web_results) = Len(dispatch_log)
    /\ Len(dispatch_log) <= Len(current_tasks)
    /\ \A n \in 1..Len(dispatch_log) :
         /\ dispatch_log[n].term = current_tasks[n].search_term
         /\ web_results[n].query = current_tasks[n].search_term
         /\ dispatch_log[n].ok =>
               /\ web_results[n].error = ""
               /\ web_results[n].policies = dispatch_log[n].policies
         /\ ~dispatch_log[n].ok =>
               /\ web_results[n].error # ""
               /\ web_results[n].policies = <<>>
    /\ (pc = "batch_ret" /\ Len(dispatch_log) < Len(current_tasks)) =>
         /\ IsTimeout
         /\ skipped = Len(current_tasks) - Len(dispatch_log)

\* a batch of three returned in full although its first and last searches
\* failed
C9_Witness ==
    /\ pc = "batch_ret"
    /\ Len(current_tasks) = 3 /\ Len(web_results) = 3
    /\ ~dispatch_log[1].ok /\ dispatch_log[2].ok /\ ~dispatch_log[3].ok
    /\ web_results[2].policies # <<>>

\* the scenario of C10: 10 s budget, 5 s pacing, five tasks, every search
\* so far took 1 s, the clock started with the batch
BudgetScenario ==
    /\ time_budget = 10 /\ request_delay = 5
    /\ Len(current_tasks) = 5
    /\ batch_t0 = start_time
    /\ \A n \in 1..Len(dispatch_log) : dispatch_log[n].lat = 1

\* C10: in that scenario exactly 2 tasks are dispatched and the remaining 3
\* are reported as skipped.
C10_BudgetScenario ==
    BudgetScenario =>
        /\ Len(dispatch_log) <= 2
        /\ pc = "batch_ret" => Len(dispatch_log) = 2 /\ skipped = 3

C10_Witness ==
    /\ BudgetScenario
    /\ pc = "batch_ret"
    /\ Len(dispatch_log) = 2
    /\ dispatch_log[2].at = 6
    /\ now = 12
    /\ skipped = 3

-----------------------------------------------------------------------------
(* Properties of run *)

\* C1: the record list returned by run never holds two records with the same
\* identity key, also after scoring and sorting.
C1_NoDuplicateKeys ==
    /\ pc \in { "score", "done" } => NoDuplicateKeys(final)
    /\ pc = "done" => NoDuplicateKeys(result.policies)

\* a run of two rounds with a deep fetch whose records overlapped, were
\* merged, scored and reordered
C1_Witness ==
    /\ pc = "done"
    /\ round_num = 2
    /\ browse_policies # <<>>
    /\ Len(result.policies) = 2
    /\ Len(all_policies) + Len(browse_policies) > 3
    /\ result.policies[1].relevance > result.policies[2].relevance
    /\ result.policies # deduplicate(all_policies \o browse_policies)

\* C5: once max rounds is reached, the budget is expired, the Reviewer says
\* stop, proposes no retry task or only phrases of the history, no further
\* search round is started and the run reaches Done.
C5_TerminalExhaustive ==
    stop_seen # -1 =>
        /\ batches = stop_seen
        /\ pc \notin { "batch", "batch_ret", "review", "raised" }

BatchFresh ==
    (pc = "batch" /\ round_num > 1) =>
        \A n \in 1..Len(current_tasks) :
            current_tasks[n].search_term \notin Range(search_history)

ContinueOnlyFresh ==
    (pc = "review" /\ pc' = "loop") =>
        /\ current_tasks' # <<>>
        /\ \A n \in 1..Len(current_tasks') :
              current_tasks'[n].search_term \notin Range(search_history)

\* C6: in every round after the first no task of the batch has a phrase of
\* the search history, and a review only leads to another round with a
\* non-empty batch of fresh phrases (if every retry task is stale no
\* further round runs).
C6_NoStaleRetry == []BatchFresh /\ [][ContinueOnlyFresh]_vars

\* the second round runs on the fresh task of a verdict that also proposed
\* a stale one
C6_Witness ==
    /\ pc = "batch"
    /\ round_num = 2
    /\ retry_src = << T1, T3 >>
    /\ current_tasks = << T3 >>
    /\ T1.search_term \in Range(search_history)
    /\ i = 2

\* C7: a failing Reviewer call does not abort the run (the review counts as
\* needsMore = false and the run goes on to merging).
C7_ReviewerFailSafe == ~(pc = "raised" /\ raised_by = "reviewer")

\* C8: no failure of a collaborator call after planning leaves the run as
\* an exception propagating to the caller.
C8_DegradedNeverAborts == pc = "raised" => raised_by = "planner"

-----------------------------------------------------------------------------
(* Budget bounds of the TaskExecutor *)

\* L: the longest search call of the batch
LongestCall ==
    LET lats == { 0 } \cup { dispatch_log[n].lat : n \in 1..Len(dispatch_log) }
    IN  CHOOSE l \in lats : \A m \in lats : m <= l

\* C11: a batch started before expiry returns no later than T + L after the
\* clock started (T the total budget, L the longest search call): it
\* overshoots the budget by at most one in-flight search, pacing included.
C11_OvershootBound ==
    (pc = "batch_ret" /\ batch_t0 - start_time < time_budget) =>
        now - start_time <= time_budget + LongestCall

\* every SearchExecutor call so far began with the budget unexpired
DispatchedInBudget ==
    \A n \in 1..Len(dispatch_log) :
        dispatch_log[n].at - start_time < time_budget

\* C12: no SearchExecutor call is dispatched while the budget is expired, in
\* any round: the calls made all began before expiry, and from a state in
\* which the budget is expired no step dispatches a call (the rest of the
\* batch is skipped).
C12_NoDispatchWhenExpired ==
    []DispatchedInBudget /\ [][IsTimeout => dispatch_log' = dispatch_log]_vars

\* the budget ran out during the first search of a batch of two: the second
\* task was skipped
C12_Witness ==
    /\ pc = "batch_ret"
    /\ Len(current_tasks) = 2
    /\ Len(dispatch_log) = 1
    /\ dispatch_log[1].at - start_time < time_budget
    /\ IsTimeout
    /\ skipped = 1

-----------------------------------------------------------------------------
(* Budget gates of the escalation and of the oracle calls *)

\* a step of _run_browse_use that starts the deep fetch of a target
DeepFetchStarts == pc = "browse" /\ bi' = bi + 1

\* C13: every deep-fetch call begins at a time when the budget is not
\* expired, whatever the targets and the latencies of the earlier fetches.
C13_NoDeepFetchWhenExpired == [][DeepFetchStarts => ~IsTimeout]_vars

\* run calls the Planner right after it starts the clock: the call begins
\* at elapsed time 0 at the earliest
PlannerCallStarts == calls'.planner > calls.planner

GatedCallStarts ==
    \E k \in { "reviewer", "judge", "ranker" } : calls'[k] > calls[k]

\* C14: no call to the Planner, Reviewer, escalation judge or Ranker is
\* started while the budget is expired; a run with total budget 0 starts
\* no oracle call.
C14_OracleCallsGated ==
    [][ /\ PlannerCallStarts => now - start_time' < time_budget
        /\ GatedCallStarts => ~IsTimeout ]_vars

-----------------------------------------------------------------------------
(* Fatal conditions *)

C16_VetoHonoured ==
    veto = "blocked" =>
        /\ pc = "batch" =>
              \A n \in 1..Len(current_tasks) :
                  current_tasks[n].dimension = "compliance"
        /\ (pc = "done" /\ result.error # "") => dispatch_log = <<>>

\* the Planner produced a batch: at least one task, and a hard veto did not
\* empty it
PlanUsable ==
    /\ plan_tasks # <<>>
    /\ ~(veto = "blocked" /\ ComplianceOnly(plan_tasks) = <<>>)

\* C17: a run whose Planner produced a usable batch returns a result with
\* no error, however it ended (budget expiry, max rounds, Reviewer stop)
\* and whichever searches, deep fetches or Ranker call failed.
C17_OnlyFatalSetsError ==
    (pc = "done" /\ PlanUsable) => result.error = ""

\* a run that lost a search, ran out of budget during a failing Ranker
\* call and still returned its records without error
C17_Witness ==
    /\ pc = "done"
    /\ PlanUsable
    /\ IsTimeout
    /\ \E n \in 1..Len(dispatch_log) : ~dispatch_log[n].ok
    /\ score_failed
    /\ result.policies # <<>>
    /\ result.error = ""

-----------------------------------------------------------------------------
(* Properties of _score_policies *)

PosIn(ps, p) ==
    CHOOSE k \in 1..Len(ps) : IdentityKey(ps[k]) = IdentityKey(p)

\* rs is ps reordered by non-increasing relevance, records of equal
\* relevance in the order they have in ps
SortedStable(rs, ps) ==
    /\ Len(rs) = Len(ps)
    /\ KeysOf(rs) = KeysOf(ps)
    /\ \A m, n \in 1..Len(rs) :
          m < n =>
              /\ rs[m].relevance >= rs[n].relevance
              /\ rs[m].relevance = rs[n].relevance =>
                    PosIn(ps, rs[m]) < PosIn(ps, rs[n])

\* C19: when the Ranker succeeds the returned list is in non-increasing
\* order of composite score, and records of equal score (unscored records
\* keep 0) are in the order of the Deduplicator's output.
C19_SortedStable ==
    (pc = "done" /\ calls.ranker = 1 /\ ~score_failed) =>
        SortedStable(result.policies,
                     deduplicate(all_policies \o browse_policies))

\* two records given the same score by the Ranker, returned in the
\* Deduplicator's order
C19_Witness ==
    /\ pc = "done"
    /\ calls.ranker = 1 /\ ~score_failed
    /\ Len(result.policies) = 2
    /\ result.policies[1].relevance = 80
    /\ result.policies[2].relevance = 80

\* position in scored of the last entry whose index is k, 0 if there is
\* none
LastEntryFor(scored, k) ==
    LET hits == { n \in 1..Len(scored) : scored[n].index = k }
    IN  IF hits = {} THEN 0
        ELSE CHOOSE n \in hits : \A m \in hits : m <= n

\* C20: an entry with index i in 1..N writes its score to the record at
\* position i of the submitted batch and to no other; an entry whose index
\* is missing, 0, negative or above N changes no record. So every record
\* comes back with the score of the last entry that names its position,
\* or unscored, and otherwise unchanged.
C20_IndexValidation ==
    dpc = "ranked" =>
        /\ Len(out) = Len(X)
        /\ \A k \in 1..Len(X) :
              LET o == out[PosIn(out, X[k])]
                  e == LastEntryFor(scored_policies, k)
              IN  /\ IdentityKey(o) = IdentityKey(X[k])
                  /\ o.relevance = IF e = 0 THEN X[k].relevance
                                    ELSE scored_policies[e].relevance
                  /\ [o EXCEPT !.relevance = X[k].relevance] = X[k]

\* a batch of three with one entry for position 3 and one entry beyond the
\* batch: only the third record is scored
C20_Witness ==
    /\ dpc = "ranked"
    /\ Len(X) = 3
    /\ scored_policies = << [index |-> 3, relevance |-> 80],
                            [index |-> 4, relevance |-> 40] >>
    /\ IdentityKey(out[1]) = IdentityKey(X[3])
    /\ out[1].relevance = 80
    /\ out[2] = X[1] /\ out[3] = X[2]

-----------------------------------------------------------------------------
(* Escalation: the judge and the deep fetch *)

\* the step starts a call of the escalation judge
JudgeStarts == calls'.judge > calls.judge

\* the judge was called and named targets, and the run went on to merge
\* without starting _run_browse_use
PartialEscalation ==
    /\ calls.judge > 0
    /\ targets # <<>>
    /\ bi = 0
    /\ pc \in {"merge", "score", "done"}

\* C21 as stated: escalation is never attempted partially: no run has the
\* judge called and returning targets while the deep fetch of those targets
\* is skipped for lack of budget; and with a remaining budget of at most
\* 90 s at the escalation check neither the judge nor a deep fetch is
\* started.
C21_NeverPartial ==
    /\ [](~PartialEscalation)
    /\ [][(pc = "escalate" /\ TimeRemaining <= BrowseMinimum)
            => (~JudgeStarts /\ pc' = "merge")]_vars

\* C21 amended: the budget is checked twice, before the judge and again
\* after it. The judge is called only with more than 90 s remaining at the
\* first check; _run_browse_use is entered only when the judge named
\* targets and more than 90 s still remain once it has answered; a run
\* whose judge named targets but which skipped the deep fetch had at most
\* 90 s left at that second check and fetched none of the targets; with at
\* most 90 s at the first check neither the judge nor a deep fetch starts.
C21_TwoBudgetChecks ==
    /\ [](PartialEscalation
            => (TimeRemaining <= BrowseMinimum /\ browse_policies = <<>>))
    /\ [](bi > 0 => calls.judge > 0)
    /\ [][JudgeStarts => TimeRemaining > BrowseMinimum]_vars
    /\ [][(pc = "escalate" /\ TimeRemaining <= BrowseMinimum)
            => (~JudgeStarts /\ pc' = "merge")]_vars
    /\ [][(pc # "browse" /\ pc' = "browse")
            => (JudgeStarts /\ targets' # <<>>
                /\ TimeRemaining' > BrowseMinimum)]_vars

\* a run returned after its judge named targets that were never fetched
C21_Witness == PartialEscalation /\ pc = "done" /\ result.error = ""

\* a record without the Ranker's score
Unscored(p) == [p EXCEPT !.relevance = 0]

\* the two lists hold the same records, each as often, whatever the order
\* and the scores
SameRecords(a, b) ==
    /\ Len(a) = Len(b)
    /\ \A n \in 1..Len(a) :
           Cardinality({ m \in 1..Len(a) : Unscored(a[m]) = Unscored(a[n]) })
             = Cardinality({ m \in 1..Len(b) :
                               Unscored(b[m]) = Unscored(a[n]) })

\* C22: the escalation judge and the deep fetch are started only in a run
\* whose caller did not disable escalation, whose accumulated record list is
\* non-empty and whose remaining budget exceeded 90 s at the check before
\* the call; with escalation disabled the returned records are exactly the
\* deduplicated records of the searches.
C22_EscalationGuards ==
    /\ [](bi > 0 => (~skip_browse_use /\ all_policies # <<>>))
    /\ []((pc = "done" /\ skip_browse_use)
            => /\ calls.judge = 0
               /\ browse_policies = <<>>
               /\ SameRecords(result.policies, deduplicate(all_policies)))
    /\ [][JudgeStarts => (/\ ~skip_browse_use
                          /\ all_policies # <<>>
                          /\ TimeRemaining > BrowseMinimum)]_vars
    /\ [][(pc # "browse" /\ pc' = "browse")
            => TimeRemaining' > BrowseMinimum]_vars

\* a run with escalation disabled returned two search records out of three
\* folded ones, in another order than the deduplicated one
C22_Witness ==
    /\ pc = "done"
    /\ skip_browse_use
    /\ Len(all_policies) = 3
    /\ Len(result.policies) = 2
    /\ result.policies # deduplicate(all_policies)
    /\ TimeRemaining > BrowseMinimum

-----------------------------------------------------------------------------
(* Rounds and reviews *)

\* the step starts a call of the Reviewer
ReviewerStarts == calls'.reviewer > calls.reviewer

\* C23: a run executes at most max_rounds search rounds; the Reviewer is
\* never called after the round numbered max_rounds, hence at most
\* max_rounds - 1 times; a run that reached max_rounds returns without an
\* error.
C23_RoundsBounded ==
    /\ [](/\ batches <= max_rounds
          /\ round_num <= max_rounds
          /\ calls.reviewer <= max_rounds - 1
          /\ calls.reviewer <= batches)
    /\ []((pc = "done" /\ round_num = max_rounds) => result.error = "")
    /\ [][ReviewerStarts => round_num < max_rounds]_vars

\* a run of two rounds with max_rounds = 2 returned after one review
C23_Witness ==
    /\ pc = "done"
    /\ max_rounds = 2
    /\ round_num = max_rounds
    /\ batches = 2
    /\ calls.reviewer = 1
    /\ result.error = ""
    /\ ~IsTimeout

-----------------------------------------------------------------------------
(* The record store across a run *)

\* list a is an initial part of list b
IsPrefix(a, b) == Len(a) <= Len(b) /\ SubSeq(b, 1, Len(a)) = a

\* the records handed back by the successful searches so far
SearchedKeys ==
    UNION { KeysOf(dispatch_log[n].policies) : n \in 1..Len(dispatch_log) }

-----------------------------------------------------------------------------
(* The budget clock *)

\* seconds since the run executed "self._start_time = time.time()"
Elapsed == now - start_time

C28_ReviewMinimum ==
    /\ [][(pc = "batch_ret" /\ time_budget - Elapsed < ReviewMinimum)
            => (pc' = "escalate" /\ ~ReviewerStarts)]_vars
    /\ [][ReviewerStarts => time_budget - Elapsed >= ReviewMinimum]_vars

\* the first of two allowed rounds ended with 44 s left: the loop was left
\* without a review
C28_Witness ==
    /\ pc = "escalate"
    /\ round_num = 1 /\ max_rounds = 2
    /\ batches = 1
    /\ calls.reviewer = 0
    /\ time_budget - Elapsed < ReviewMinimum
    /\ ~IsTimeout

\* the tasks of the list whose phrase is not in the history, in order
FreshOf(tasks, history) ==
    SelectSeq(tasks, LAMBDA t : t.search_term \notin Range(history))

\* the tasks of the compliance dimension, in order
RecoveryOf(tasks) == SelectSeq(tasks, LAMBDA t : t.dimension = "compliance")

\* the batch of a round after the first is the retry list of the previous
\* round's review without the phrases searched so far
LaterBatchesFromReview ==
    (pc = "batch" /\ batches > 1)
        => current_tasks = FreshOf(retry_src, search_history)

\* C30 as stated: the batch of every round after the first is exactly the
\* retry list of the previous round's review with the tasks whose phrase is
\* in the search history removed, in the Reviewer's order; the batch of the
\* first round is the Planner's task list.
C30_RoundChaining ==
    /\ LaterBatchesFromReview
    /\ (pc = "batch" /\ batches = 1) => current_tasks = plan_tasks

\* C30 amended: the same for the later rounds; the batch of the first round
\* is the Planner's task list, narrowed to its compliance-dimension tasks
\* when the Planner's compliance veto blocks the run.
C30_RoundChainingUnderVeto ==
    /\ LaterBatchesFromReview
    /\ (pc = "batch" /\ batches = 1)
         => current_tasks = IF veto = "blocked" THEN RecoveryOf(plan_tasks)
                            ELSE plan_tasks

\* a blocked run searched one of the Planner's two tasks in round 1 and
\* runs round 2 on the Reviewer's two retry tasks
C30_Witness ==
    /\ pc = "batch"
    /\ batches = 2
    /\ veto = "blocked"
    /\ Len(plan_tasks) = 2
    /\ Len(search_history) = 1
    /\ Len(retry_src) = 2
    /\ current_tasks = retry_src

\* the verdict last returned tells the run to stop: it says no more search,
\* names no retry task, or names only phrases of the search history
StopVerdict ==
    \/ ~verdict.need_more_search
    \/ verdict.retry_tasks = <<>>
    \/ \A n \in 1..Len(verdict.retry_tasks) :
           verdict.retry_tasks[n].search_term \in Range(search_history)

\* positions of run after the search loop
AfterLoop == { "escalate", "browse", "merge", "score", "done", "raised" }

\* C29: after a review whose verdict says stop, or names no retry task, or
\* names only phrases of the search history, the run makes no SearchExecutor
\* call and no Reviewer call any more.
C29_StopIsFinal ==
    /\ [][(pc = "review" /\ pc' # "raised" /\ StopVerdict')
            => pc' = "escalate"]_vars
    /\ [][(pc \in AfterLoop)
            => (/\ pc' \in AfterLoop
                /\ dispatch_log' = dispatch_log
                /\ batches' = batches
                /\ ~ReviewerStarts)]_vars

\* the Reviewer asked for more search but named only a phrase already
\* searched: the run left the loop, with rounds and budget to spare
C29_Witness ==
    /\ pc = "escalate"
    /\ calls.reviewer = 1
    /\ verdict.need_more_search
    /\ verdict.retry_tasks # <<>>
    /\ StopVerdict
    /\ round_num < max_rounds
    /\ TimeRemaining >= ReviewMinimum

-----------------------------------------------------------------------------
(* The three-task scenario *)

\* the Planner returned three tasks in three layers; the searches of round
\* 1 returned two records for the first, none for the second and one for
\* the third, a record with the title and url of one of the first two; the
\* Reviewer then answered that no more search is needed; max_rounds >= 2
\* and the budget is far from spent
ThreeTaskScenario ==
    /\ plan_tasks = << T1, T2, T4 >>
    /\ max_rounds >= 2
    /\ time_budget = 1000
    /\ Len(dispatch_log) >= 3
    /\ dispatch_log[1].term = T1.search_term /\ dispatch_log[1].ok
    /\ dispatch_log[2].term = T2.search_term /\ dispatch_log[2].ok
    /\ dispatch_log[3].term = T4.search_term /\ dispatch_log[3].ok
    /\ Len(dispatch_log[1].policies) = 2
    /\ dispatch_log[2].policies = <<>>
    /\ Len(dispatch_log[3].policies) = 1
    /\ \E n \in 1..2 :
         /\ dispatch_log[1].policies[n].title = dispatch_log[3].policies[1].title
         /\ dispatch_log[1].policies[n].url = dispatch_log[3].policies[1].url
    /\ calls.reviewer = 1
    /\ raised_by # "reviewer"
    /\ ~verdict.need_more_search

\* C27 as stated: in the three-task scenario the run executes exactly one
\* round and the result it returns holds exactly 2 records and no error.
C27_Scenario ==
    ThreeTaskScenario
        => /\ pc \in AfterLoop
           /\ round_num = 1 /\ batches = 1
           /\ pc = "done" => (Len(result.policies) = 2 /\ result.error = "")

\* C27 amended: in the three-task scenario with escalation disabled by the
\* caller the run executes exactly one round and returns exactly 2 records
\* with no error.
C27_ScenarioWithoutEscalation ==
    (ThreeTaskScenario /\ skip_browse_use)
        => /\ pc \in AfterLoop \ { "raised" }
           /\ round_num = 1 /\ batches = 1
           /\ pc = "done" => (Len(result.policies) = 2 /\ result.error = "")

\* the scenario ran without escalation and returned its two records, the
\* second one ranked first
C27_Witness ==
    /\ ThreeTaskScenario
    /\ skip_browse_use
    /\ pc = "done"
    /\ calls.ranker = 1
    /\ Len(result.policies) = 2
    /\ result.policies[1].relevance = 80
    /\ result.error = ""

-----------------------------------------------------------------------------
(* Two runs on one Orchestrator object *)

\* seconds since this run began, whatever the object's field holds
OwnElapsed == now - own_start

\* C25: when a second run is started while a run is in progress, also on
\* the same Orchestrator object, the first run goes on deciding from its own
\* start time: it dispatches a search only while its own budget is not
\* expired and skips the rest of a batch only once it is; and its record
\* store holds only what its own searches returned.
C25_RunIsolation ==
    /\ (pc = "batch_ret" /\ skipped > 0) => OwnElapsed >= time_budget
    /\ \A n \in 1..Len(dispatch_log) :
           dispatch_log[n].at - own_start < time_budget
    /\ pc \in { "escalate", "merge", "done" }
         => KeysOf(all_policies) \subseteq SearchedKeys

-----------------------------------------------------------------------------
(* Pacing and tagging in a batch *)

\* C31: within a batch the TaskExecutor sleeps request_delay after every
\* task except the last one, after a failed task as after a successful one:
\* the next dispatch of the batch comes at least request_delay after the
\* previous call returned, and no sleep follows the last task.
C31_Pacing ==
    /\ \A n \in 1..Len(dispatch_log) :
           dispatch_log[n].slept
             = IF n < Len(current_tasks) THEN request_delay ELSE 0
    /\ \A n \in 1..(Len(dispatch_log) - 1) :
           dispatch_log[n + 1].at
             >= dispatch_log[n].at + dispatch_log[n].lat + request_delay
    /\ (pc = "batch_ret" /\ skipped = 0 /\ dispatch_log # <<>>)
         => LET last == dispatch_log[Len(dispatch_log)]
            IN  now = last.at + last.lat

\* a batch of three tasks ended: the second search failed and was followed
\* by the sleep, the third was not
C31_Witness ==
    /\ pc = "batch_ret"
    /\ request_delay > 0
    /\ Len(current_tasks) = 3
    /\ Len(dispatch_log) = 3
    /\ ~dispatch_log[2].ok
    /\ dispatch_log[2].slept = request_delay
    /\ dispatch_log[3].at = dispatch_log[2].at + dispatch_log[2].lat
                              + request_delay
    /\ now = dispatch_log[3].at + dispatch_log[3].lat

\* the records of the searches so far, each with the layer of the task
\* that was searched (in a single batch the n-th dispatch is the n-th task)
TaggedByTask ==
    Flatten([ n \in 1..Len(dispatch_log) |->
                [ m \in 1..Len(dispatch_log[n].policies) |->
                    [dispatch_log[n].policies[m] EXCEPT
                        !.layer = current_tasks[n].layer] ] ])

\* C32: every record folded into the store from a search round carries as
\* its layer the layer of the task whose search returned it, whatever the
\* layer's value.
C32_Tagging == pc = "escalate" => all_policies = TaggedByTask

-----------------------------------------------------------------------------
(* Order of the output of deduplicate *)

KeySeq(ps) == [ n \in 1..Len(ps) |-> PolicyKey(ps[n]) ]

\* ks with every occurrence after the first of each element removed
RECURSIVE FirstOccurrences(_)
FirstOccurrences(ks) ==
    IF ks = <<>> THEN <<>>
    ELSE LET init == SubSeq(ks, 1, Len(ks) - 1)
             last == ks[Len(ks)]
         IN  IF last \in Range(init) THEN FirstOccurrences(init)
             ELSE Append(FirstOccurrences(init), last)

-----------------------------------------------------------------------------
(* Conflicting values of the optional fields *)

OptionalFields == { "pdf_url", "support", "full_text" }

\* positions of the records of X with key k that populate field f
Populating(k, f) ==
    { n \in 1..Len(X) : PolicyKey(X[n]) = k /\ X[n][f] # "" }

FirstPopulating(k, f) ==
    CHOOSE n \in Populating(k, f) : \A m \in Populating(k, f) : n <= m

Conflicting(k, f) ==
    \E n, m \in Populating(k, f) : X[n][f] # X[m][f]

\* C34: when two or more records of X with the same identity key carry
\* different non-empty values of pdf_url, support or full_text, the record
\* of deduplicate(X) for that key has the value of the first record of X
\* that populated the field, whatever the summary lengths are.
C34_FirstPopulatedWins ==
    dpc = "once" =>
        \A n \in 1..Len(out) : \A f \in OptionalFields :
            Conflicting(PolicyKey(out[n]), f) =>
                out[n][f] = X[FirstPopulating(PolicyKey(out[n]), f)][f]

-----------------------------------------------------------------------------
(* The returned source list *)

\* source urls reported by the searches of the run so far
ReportedSources ==
    UNION { Range(dispatch_log[n].sources) : n \in 1..Len(dispatch_log) }

NoRepeat(l) == \A n, m \in 1..Len(l) : l[n] = l[m] => n = m

\* C35: the source list of a returned result holds no url twice and, as a
\* set, is the union of the source urls reported by every search result of
\* every round the run executed.
C35_SourceSet ==
    pc = "done" =>
        /\ NoRepeat(result.sources)
        /\ Range(result.sources) = ReportedSources

\* two searches reported the same url, a second url came with one of them
C35_Witness ==
    /\ pc = "done" /\ result.error = ""
    /\ \E n, m \in 1..Len(dispatch_log) :
          n # m /\ Range(dispatch_log[n].sources)
                     \cap Range(dispatch_log[m].sources) # {}
    /\ Len(result.sources) = 2

-----------------------------------------------------------------------------
(* Phrases submitted to the SearchExecutor *)

\* C36: within one run no search phrase is submitted to the SearchExecutor
\* more than once, over every task of every round, two tasks of one batch
\* with the same phrase included.
C36_NoPhraseTwice ==
    \A n, m \in 1..Len(dispatch_log) :
        dispatch_log[n].term = dispatch_log[m].term => n = m

-----------------------------------------------------------------------------
(* The search history *)

DispatchedPhrases == { dispatch_log[n].term : n \in 1..Len(dispatch_log) }

\* C37: the search history holds exactly the phrases that were dispatched
\* to the SearchExecutor: every phrase in it was dispatched, the phrase of a
\* task skipped at budget expiry never is in it, and once a batch is folded
\* every dispatched phrase is in it.
C37_HistoryIsDispatched ==
    /\ Range(search_history) \subseteq DispatchedPhrases
    /\ pc \notin { "batch", "batch_ret" } =>
           DispatchedPhrases \subseteq Range(search_history)

-----------------------------------------------------------------------------
(* The reported round count *)

\* C38: the round count reported at the end of a run is the number of
\* rounds in which the TaskExecutor was run; a round left at its start
\* because the budget had expired is not counted.
C38_RoundCount == pc = "done" => round_num = batches

-----------------------------------------------------------------------------
(* Identity of records whose title or url contains "||" *)

\* C39: deduplicate merges two records only when their trimmed titles are
\* equal and their normalised urls are equal: every (title, url) pair of the
\* input has its own record in the output, also for titles and urls that
\* contain "||".
C39_PairwiseIdentity ==
    dpc = "once" => KeysOf(X) \subseteq KeysOf(out)

-----------------------------------------------------------------------------
(* deduplicate and the order of its input *)

\* the lists that hold the records of ps in another order
Reorderings(ps) ==
    { [ n \in 1..Len(ps) |-> ps[f[n]] ] : f \in Permutations(1..Len(ps)) }

SameContent(p, q) ==
    /\ Len(p.summary) = Len(q.summary)
    /\ \A f \in OptionalFields : (p[f] = "") <=> (q[f] = "")

\* C40: the content of deduplicate's output does not depend on the order of
\* the input: for every reordering Y of X and every identity key, the record
\* of deduplicate(Y) for the key has the summary length of the record of
\* deduplicate(X) for it, and pdf_url, support and full_text are empty in
\* the one exactly when they are empty in the other.
C40_OrderInsensitive ==
    dpc = "once" =>
        \A Y \in Reorderings(X) :
            LET outY == deduplicate(Y)
            IN  \A n \in 1..Len(out) : \A m \in 1..Len(outY) :
                    PolicyKey(out[n]) = PolicyKey(outY[m])
                        => SameContent(out[n], outY[m])

====
